---- MODULE Spec2Model ----
(***************************************************************************)
(* Options payoff engines of the repository.                               *)
(*                                                                         *)
(*   explicit-premium engine : src/src/option_strategies.py                *)
(*       OptionStrategies(strike); every strategy takes the premium(s),    *)
(*       and the multi-strike strategies also the strikes, as arguments.   *)
(*       Multi-strike strategies assign self.strike before each leg.       *)
(*   held-premium engine     : src/src/strategy/option_strategies.py       *)
(*       the second (effective) class OptionStrategies(strike, premium,    *)
(*       expiration, current_time); every strategy takes the spot only.    *)
(*                                                                         *)
(* A program run imports one of the two modules and builds one engine      *)
(* (app/app.py the first, src/app.py the second); the variable engine      *)
(* says which.  Each step of the model is one call of one strategy         *)
(* function on that instance; the call's arguments and its return value    *)
(* are recorded in op, spot, strikeArgs, premArgs and result.              *)
(*                                                                         *)
(* Numbers are integers (prices in currency units); points in time are     *)
(* integers (days).  A scalar return value v is recorded as <<v>>, a       *)
(* returned tuple as the sequence of its components.                       *)
(***************************************************************************)
EXTENDS Integers, Sequences, FiniteSets, TLC

VARIABLES
    engine,      \* "explicit" or "held": which class was instantiated
    strike,      \* self.strike
    strike0,     \* the strike given to the constructor (never assigned again)
    premium,     \* self.premium   (held engine; 0 and unused in the explicit one)
    expiration,  \* self.expiration (held engine)
    current,     \* self.current    (held engine)
    op,          \* name of the last strategy function called, "init" before any
    spot,        \* its spot argument
    strikeArgs,  \* its strike arguments, in parameter order
    premArgs,    \* its premium arguments, in parameter order
    result,      \* its return value
    threads,     \* concurrent calls in progress on the instance (SpecRace)
    writer,      \* the thread whose assignment self.strike holds, 0: __init__
    ctor,        \* arguments of the constructor call (SpecConstruct)
    vec          \* the element-wise evaluation in progress (SpecApp)

vars == <<engine, strike, strike0, premium, expiration, current,
          op, spot, strikeArgs, premArgs, result, threads, writer,
          ctor, vec>>

contract == <<engine, strike, strike0, premium, expiration, current>>

----------------------------------------------------------------------------
(* Bounds of the input domains.                                            *)

MinSpot == 16
MaxSpot == 24
MinStrike == 9
MaxStrike == 11
MaxPremium == 1
MaxLegPremium == 1
MaxTime == 1

\* spot prices 80, 85, ..., 120
Spots == {5 * i : i \in MinSpot..MaxSpot}
\* strikes 90, 100, 110
Strikes == {10 * i : i \in MinStrike..MaxStrike}
\* premiums 0, 3, 8, 10
Premiums == {3, 8} \cup {10 * i : i \in 0..MaxPremium}
\* premiums of the legs of the multi-leg calls: 3, 8
LegPremiums == {3} \cup {8 * i : i \in 1..MaxLegPremium}
\* points in time
Times == 0..MaxTime

----------------------------------------------------------------------------
(* Python's built-in max and min on two numbers.                           *)

max(a, b) == IF b > a THEN b ELSE a

min(a, b) == IF b < a THEN b ELSE a

\* last component of a returned tuple (the value itself for a scalar)
Net(r) == r[Len(r)]

----------------------------------------------------------------------------
(* Construction.                                                           *)

\* src/src/option_strategies.py  OptionStrategies.__init__(strike)
InitExplicit ==
    /\ engine = "explicit"
    /\ strike \in Strikes
    /\ strike0 = strike
    /\ premium = 0
    /\ expiration = 0
    /\ current = 0

\* src/src/strategy/option_strategies.py  second OptionStrategies.__init__
InitHeld ==
    /\ engine = "held"
    /\ strike \in Strikes
    /\ strike0 = strike
    /\ premium \in Premiums
    /\ expiration \in Times
    /\ current \in Times

Init ==
    /\ InitExplicit \/ InitHeld
    /\ op = "init"
    /\ spot = 0
    /\ strikeArgs = <<>>
    /\ premArgs = <<>>
    /\ result = <<>>
    /\ threads = <<>>
    /\ writer = 0
    /\ ctor = <<>>
    /\ vec = <<>>

----------------------------------------------------------------------------
(* Explicit-premium engine, src/src/option_strategies.py.                  *)
(* self_strike is the value of self.strike when the function body reads    *)
(* it.                                                                     *)

\* variant: the put's intrinsic value in place of the call's
long_call_mut(self_strike, s, prem) ==
    LET intrinsic_value == max(0, self_strike - s)
        net_payoff == intrinsic_value - prem
    IN  net_payoff

long_call(self_strike, s, prem) ==
    LET intrinsic_value == max(0, s - self_strike)
        net_payoff == intrinsic_value - prem
    IN  net_payoff

long_put(self_strike, s, prem) ==
    LET intrinsic_value == max(0, self_strike - s)
        net_payoff == intrinsic_value - prem
    IN  net_payoff

\* variant: the long side's sign
short_call_mut(self_strike, s, prem) ==
    LET intrinsic_value == max(0, s - self_strike)
        net_payoff == intrinsic_value - prem
    IN  net_payoff

short_call(self_strike, s, prem) ==
    LET intrinsic_value == max(0, s - self_strike)
        net_payoff == prem - intrinsic_value
    IN  net_payoff

short_put(self_strike, s, prem) ==
    LET intrinsic_value == max(0, self_strike - s)
        net_payoff == prem - intrinsic_value
    IN  net_payoff

long_straddle(self_strike, s, call_premium, put_premium) ==
    LET long_call_payoff == long_call(self_strike, s, call_premium)
        long_put_payoff == long_put(self_strike, s, put_premium)
        net_payoff == long_call_payoff + long_put_payoff
    IN  <<long_call_payoff, long_put_payoff, net_payoff>>

short_straddle(self_strike, s, call_premium, put_premium) ==
    LET short_call_payoff == short_call(self_strike, s, call_premium)
        short_put_payoff == short_put(self_strike, s, put_premium)
        net_payoff == short_call_payoff + short_put_payoff
    IN  <<short_call_payoff, short_put_payoff, net_payoff>>

\* variant: net_payoff = long_call_payoff = short_put_payoff
long_synthetic_mut(self_strike, s, call_premium, put_premium) ==
    LET short_put_payoff == short_put(self_strike, s, put_premium)
        long_call_payoff == short_put_payoff
        net_payoff == short_put_payoff
    IN  <<long_call_payoff, short_put_payoff, net_payoff>>

long_synthetic(self_strike, s, call_premium, put_premium) ==
    LET long_call_payoff == long_call(self_strike, s, call_premium)
        short_put_payoff == short_put(self_strike, s, put_premium)
        net_payoff == long_call_payoff + short_put_payoff
    IN  <<long_call_payoff, short_put_payoff, net_payoff>>

short_synthetic(self_strike, s, call_premium, put_premium) ==
    LET short_call_payoff == short_call(self_strike, s, call_premium)
        long_put_payoff == long_put(self_strike, s, put_premium)
        net_payoff == short_call_payoff + long_put_payoff
    IN  <<short_call_payoff, long_put_payoff, net_payoff>>

\* variant: the second leg evaluated at the first leg's strike
bull_call_spread_mut(s, lower_strike, upper_strike, lower_premium, upper_premium) ==
    LET long_call_payoff == long_call(lower_strike, s, lower_premium)
        short_call_payoff == short_call(lower_strike, s, upper_premium)
        net_payoff == long_call_payoff + short_call_payoff
    IN  <<long_call_payoff, short_call_payoff, net_payoff>>

\* self.strike = lower_strike before the first leg, = upper_strike before
\* the second; the function leaves self.strike = upper_strike.
bull_call_spread(s, lower_strike, upper_strike, lower_premium, upper_premium) ==
    LET long_call_payoff == long_call(lower_strike, s, lower_premium)
        short_call_payoff == short_call(upper_strike, s, upper_premium)
        net_payoff == long_call_payoff + short_call_payoff
    IN  <<long_call_payoff, short_call_payoff, net_payoff>>

(* One call on the explicit engine: name, spot, strike arguments, premium  *)
(* arguments, value of self.strike at return, returned value.              *)
ExplicitCall(name, s, ks, ps, k, r) ==
    /\ engine = "explicit"
    /\ op' = name
    /\ spot' = s
    /\ strikeArgs' = ks
    /\ premArgs' = ps
    /\ strike' = k
    /\ result' = r
    /\ UNCHANGED <<engine, strike0, premium, expiration, current>>
    /\ UNCHANGED <<threads, writer, ctor, vec>>

Call_long_call ==
    \E s \in Spots, p \in Premiums :
        ExplicitCall("long_call", s, <<>>, <<p>>, strike,
                     <<long_call(strike, s, p)>>)

Call_long_put ==
    \E s \in Spots, p \in Premiums :
        ExplicitCall("long_put", s, <<>>, <<p>>, strike,
                     <<long_put(strike, s, p)>>)

Call_short_call ==
    \E s \in Spots, p \in Premiums :
        ExplicitCall("short_call", s, <<>>, <<p>>, strike,
                     <<short_call(strike, s, p)>>)

Call_short_put ==
    \E s \in Spots, p \in Premiums :
        ExplicitCall("short_put", s, <<>>, <<p>>, strike,
                     <<short_put(strike, s, p)>>)

Call_long_straddle ==
    \E s \in Spots, cp \in Premiums, pp \in Premiums :
        ExplicitCall("long_straddle", s, <<>>, <<cp, pp>>, strike,
                     long_straddle(strike, s, cp, pp))

Call_short_straddle ==
    \E s \in Spots, cp \in Premiums, pp \in Premiums :
        ExplicitCall("short_straddle", s, <<>>, <<cp, pp>>, strike,
                     short_straddle(strike, s, cp, pp))

Call_long_synthetic ==
    \E s \in Spots, cp \in Premiums, pp \in Premiums :
        ExplicitCall("long_synthetic", s, <<>>, <<cp, pp>>, strike,
                     long_synthetic(strike, s, cp, pp))

Call_short_synthetic ==
    \E s \in Spots, cp \in Premiums, pp \in Premiums :
        ExplicitCall("short_synthetic", s, <<>>, <<cp, pp>>, strike,
                     short_synthetic(strike, s, cp, pp))

Call_bull_call_spread ==
    \E s \in Spots, lk \in Strikes, uk \in Strikes,
       lp \in Premiums, up \in Premiums :
        ExplicitCall("bull_call_spread", s, <<lk, uk>>, <<lp, up>>, uk,
                     bull_call_spread(s, lk, uk, lp, up))

NextExplicit ==
    \/ Call_long_call
    \/ Call_long_put
    \/ Call_short_call
    \/ Call_short_put
    \/ Call_long_straddle
    \/ Call_short_straddle
    \/ Call_long_synthetic
    \/ Call_short_synthetic
    \/ Call_bull_call_spread

----------------------------------------------------------------------------
(* Explicit-premium engine, the remaining strategy functions.  A function  *)
(* with strike parameters assigns self.strike before each leg; the leg     *)
(* then reads it, so each leg below is evaluated at the strike assigned    *)
(* just before it, and the last assignment stays in self.strike.  Where a  *)
(* name is defined twice in the class, the later definition is the method. *)

\* net_payoff = long_put_payoff = short_put_payoff assigns the short put's
\* payoff to both names
bull_put_spread(s, lower_strike, upper_strike, lower_premium, upper_premium) ==
    LET long_put_payoff_1 == long_put(lower_strike, s, lower_premium)
        short_put_payoff == short_put(upper_strike, s, upper_premium)
        net_payoff == short_put_payoff
        long_put_payoff == short_put_payoff
    IN  <<long_put_payoff, short_put_payoff, net_payoff>>

\* the second definition of bear_call_spread (lines 208-229): a long put at
\* upper_strike, then self.strike = lower_premium and a short put read at
\* that value
bear_call_spread(s, lower_strike, upper_strike, lower_premium, upper_premium) ==
    LET long_put_payoff == long_put(upper_strike, s, upper_premium)
        short_put_payoff == short_put(lower_premium, s, lower_premium)
        net_payoff == long_put_payoff + short_put_payoff
    IN  <<short_put_payoff, long_put_payoff, net_payoff>>

strap(self_strike, s, call_premium, put_premium) ==
    LET long_call_payoff == 2 * long_call(self_strike, s, call_premium)
        long_put_payoff == long_put(self_strike, s, put_premium)
        net_payoff == long_call_payoff + long_put_payoff
    IN  <<long_call_payoff, long_put_payoff, net_payoff>>

strip(self_strike, s, call_premium, put_premium) ==
    LET long_call_payoff == long_call(self_strike, s, call_premium)
        long_put_payoff == 2 * long_put(self_strike, s, put_premium)
        net_payoff == long_call_payoff + long_put_payoff
    IN  <<long_call_payoff, long_put_payoff, net_payoff>>

call_backspread(s, lower_strike, upper_strike, lower_premium, upper_premium) ==
    LET short_call_payoff == short_call(lower_strike, s, lower_premium)
        long_call_payoff == 2 * long_call(upper_strike, s, upper_premium)
        net_payoff == short_call_payoff + long_call_payoff
    IN  <<short_call_payoff, long_call_payoff, net_payoff>>

put_backspread(s, lower_strike, upper_strike, lower_premium, upper_premium) ==
    LET short_put_payoff == short_put(lower_strike, s, lower_premium)
        long_put_payoff == 2 * long_put(upper_strike, s, upper_premium)
        net_payoff == short_put_payoff + long_put_payoff
    IN  <<short_put_payoff, long_put_payoff, net_payoff>>

long_combo(s, lower_strike, upper_strike, call_premium, put_premium) ==
    LET short_put_payoff == short_put(lower_strike, s, put_premium)
        long_call_payoff == 2 * long_call(upper_strike, s, call_premium)
        net_payoff == short_put_payoff + long_call_payoff
    IN  <<short_put_payoff, long_call_payoff, net_payoff>>

long_strangle(s, lower_strike, upper_strike, call_premium, put_premium) ==
    LET long_put_payoff == long_put(lower_strike, s, put_premium)
        long_call_payoff == long_call(upper_strike, s, call_premium)
        net_payoff == long_call_payoff + long_put_payoff
    IN  <<long_put_payoff, long_call_payoff, net_payoff>>

short_strangle(s, lower_strike, upper_strike, call_premium, put_premium) ==
    LET short_put_payoff == short_put(lower_strike, s, put_premium)
        short_call_payoff == short_call(upper_strike, s, call_premium)
        net_payoff == short_put_payoff + short_call_payoff
    IN  <<short_put_payoff, short_call_payoff, net_payoff>>

long_call_ladder(s, lower_strike, middle_strike, upper_strike, lower_premium, middle_premium, upper_premium) ==
    LET lower_call_payoff == long_call(lower_strike, s, lower_premium)
        middle_call_payoff == short_call(middle_strike, s, middle_premium)
        upper_call_payoff == long_call(upper_strike, s, upper_premium)
        net_payoff == lower_call_payoff + middle_call_payoff
                      + upper_call_payoff
    IN  <<lower_call_payoff, middle_call_payoff,
          upper_call_payoff, net_payoff>>

long_put_ladder(s, upper_strike, middle_strike, lower_strike, upper_premium, middle_premium, lower_premium) ==
    LET upper_put_payoff == long_put(upper_strike, s, upper_premium)
        middle_put_payoff == short_put(middle_strike, s, middle_premium)
        lower_put_payoff == long_put(lower_strike, s, lower_premium)
        net_payoff == upper_put_payoff + middle_put_payoff + lower_put_payoff
    IN  <<upper_put_payoff, middle_put_payoff, lower_put_payoff, net_payoff>>

short_call_ladder(s, lower_strike, middle_strike, upper_strike, lower_premium, middle_premium, upper_premium) ==
    LET lower_call_payoff == short_call(lower_strike, s, lower_premium)
        middle_call_payoff == long_call(middle_strike, s, middle_premium)
        upper_call_payoff == long_call(upper_strike, s, upper_premium)
        net_payoff == lower_call_payoff + middle_call_payoff
                      + upper_call_payoff
    IN  <<lower_call_payoff, middle_call_payoff,
          upper_call_payoff, net_payoff>>

short_put_ladder(s, upper_strike, middle_strike, lower_strike, upper_premium, middle_premium, lower_premium) ==
    LET upper_put_payoff == short_put(upper_strike, s, upper_premium)
        middle_put_payoff == long_put(middle_strike, s, middle_premium)
        lower_put_payoff == long_put(lower_strike, s, lower_premium)
        net_payoff == upper_put_payoff + middle_put_payoff + lower_put_payoff
    IN  <<upper_put_payoff, middle_put_payoff, lower_put_payoff, net_payoff>>

long_call_butterfly(s, lower_strike, middle_strike, upper_strike, lower_premium, middle_premium, upper_premium) ==
    LET lower_call_payoff == long_call(lower_strike, s, lower_premium)
        middle_call_payoff == 2 * short_call(middle_strike, s, middle_premium)
        upper_call_payoff == long_call(upper_strike, s, upper_premium)
        net_payoff == lower_call_payoff + middle_call_payoff
                      + upper_call_payoff
    IN  <<lower_call_payoff, middle_call_payoff,
          upper_call_payoff, net_payoff>>

short_call_butterfly(s, lower_strike, middle_strike, upper_strike, lower_premium, middle_premium, upper_premium) ==
    LET lower_call_payoff == short_call(lower_strike, s, lower_premium)
        middle_call_payoff == 2 * long_call(middle_strike, s, middle_premium)
        upper_call_payoff == short_call(upper_strike, s, upper_premium)
        net_payoff == lower_call_payoff + middle_call_payoff
                      + upper_call_payoff
    IN  <<lower_call_payoff, middle_call_payoff,
          upper_call_payoff, net_payoff>>

long_call_condor(s, lower_strike, lower_middle_strike, upper_middle_strike, upper_strike, lower_premium, lower_middle_premium, upper_middle_premium, upper_premium) ==
    LET lower_call_payoff == long_call(lower_strike, s, lower_premium)
        lower_middle_call_payoff == short_call(lower_middle_strike, s, lower_middle_premium)
        upper_middle_call_payoff == short_call(upper_middle_strike, s, upper_middle_premium)
        upper_call_payoff == long_call(upper_strike, s, upper_premium)
        net_payoff == lower_call_payoff + lower_middle_call_payoff
                      + upper_middle_call_payoff + upper_call_payoff
    IN  <<lower_call_payoff, lower_middle_call_payoff, upper_middle_call_payoff,
          upper_call_payoff, net_payoff>>

short_call_condor(s, lower_strike, lower_middle_strike, upper_middle_strike, upper_strike, lower_premium, lower_middle_premium, upper_middle_premium, upper_premium) ==
    LET lower_call_payoff == short_call(lower_strike, s, lower_premium)
        lower_middle_call_payoff == long_call(lower_middle_strike, s, lower_middle_premium)
        upper_middle_call_payoff == long_call(upper_middle_strike, s, upper_middle_premium)
        upper_call_payoff == short_call(upper_strike, s, upper_premium)
        net_payoff == lower_call_payoff + lower_middle_call_payoff
                      + upper_middle_call_payoff + upper_call_payoff
    IN  <<lower_call_payoff, lower_middle_call_payoff, upper_middle_call_payoff,
          upper_call_payoff, net_payoff>>

(* Calls whose arguments and result the caller drops before the next     *)
(* call: between two calls only self.strike persists.  Invoke is a call    *)
(* made when no earlier call's record is kept, Discard drops the record.   *)
Idle == engine = "explicit" /\ op \in {"init", "idle"}

Invoke(name, s, ks, ps, k, r) ==
    /\ Idle
    /\ ExplicitCall(name, s, ks, ps, k, r)

Discard ==
    /\ engine = "explicit"
    /\ op \notin {"init", "idle"}
    /\ op' = "idle"
    /\ spot' = 0
    /\ strikeArgs' = <<>>
    /\ premArgs' = <<>>
    /\ result' = <<>>
    /\ UNCHANGED contract
    /\ UNCHANGED <<threads, writer, ctor, vec>>

Invoke_long_call ==
    /\ Idle
    /\ \E s \in Spots, p \in LegPremiums :
           Invoke("long_call", s, <<>>, <<p>>, strike,
                  <<long_call(strike, s, p)>>)

Invoke_long_put ==
    /\ Idle
    /\ \E s \in Spots, p \in LegPremiums :
              Invoke("long_put", s, <<>>, <<p>>, strike,
                     <<long_put(strike, s, p)>>)

Invoke_short_call ==
    /\ Idle
    /\ \E s \in Spots, p \in LegPremiums :
              Invoke("short_call", s, <<>>, <<p>>, strike,
                     <<short_call(strike, s, p)>>)

Invoke_short_put ==
    /\ Idle
    /\ \E s \in Spots, p \in LegPremiums :
              Invoke("short_put", s, <<>>, <<p>>, strike,
                     <<short_put(strike, s, p)>>)

Invoke_long_straddle ==
    /\ Idle
    /\ \E s \in Spots, cp \in LegPremiums, pp \in LegPremiums :
              Invoke("long_straddle", s, <<>>, <<cp, pp>>, strike,
                     long_straddle(strike, s, cp, pp))

Invoke_short_straddle ==
    /\ Idle
    /\ \E s \in Spots, cp \in LegPremiums, pp \in LegPremiums :
              Invoke("short_straddle", s, <<>>, <<cp, pp>>, strike,
                     short_straddle(strike, s, cp, pp))

Invoke_long_synthetic ==
    /\ Idle
    /\ \E s \in Spots, cp \in LegPremiums, pp \in LegPremiums :
              Invoke("long_synthetic", s, <<>>, <<cp, pp>>, strike,
                     long_synthetic(strike, s, cp, pp))

Invoke_short_synthetic ==
    /\ Idle
    /\ \E s \in Spots, cp \in LegPremiums, pp \in LegPremiums :
              Invoke("short_synthetic", s, <<>>, <<cp, pp>>, strike,
                     short_synthetic(strike, s, cp, pp))

Invoke_strap ==
    /\ Idle
    /\ \E s \in Spots, cp \in LegPremiums, pp \in LegPremiums :
              Invoke("strap", s, <<>>, <<cp, pp>>, strike,
                     strap(strike, s, cp, pp))

Invoke_strip ==
    /\ Idle
    /\ \E s \in Spots, cp \in LegPremiums, pp \in LegPremiums :
              Invoke("strip", s, <<>>, <<cp, pp>>, strike,
                     strip(strike, s, cp, pp))

Invoke_bull_call_spread ==
    /\ Idle
    /\ \E s \in Spots, k1, k2 \in Strikes,
          p1, p2 \in LegPremiums :
              Invoke("bull_call_spread", s, <<k1, k2>>, <<p1, p2>>, k2,
                     bull_call_spread(s, k1, k2, p1, p2))

Invoke_bull_put_spread ==
    /\ Idle
    /\ \E s \in Spots, k1, k2 \in Strikes,
          p1, p2 \in LegPremiums :
              Invoke("bull_put_spread", s, <<k1, k2>>, <<p1, p2>>, k2,
                     bull_put_spread(s, k1, k2, p1, p2))

Invoke_bear_call_spread ==
    /\ Idle
    /\ \E s \in Spots, k1, k2 \in Strikes,
          p1, p2 \in LegPremiums :
              Invoke("bear_call_spread", s, <<k1, k2>>, <<p1, p2>>, p1,
                     bear_call_spread(s, k1, k2, p1, p2))

Invoke_call_backspread ==
    /\ Idle
    /\ \E s \in Spots, k1, k2 \in Strikes,
          p1, p2 \in LegPremiums :
              Invoke("call_backspread", s, <<k1, k2>>, <<p1, p2>>, k2,
                     call_backspread(s, k1, k2, p1, p2))

Invoke_put_backspread ==
    /\ Idle
    /\ \E s \in Spots, k1, k2 \in Strikes,
          p1, p2 \in LegPremiums :
              Invoke("put_backspread", s, <<k1, k2>>, <<p1, p2>>, k2,
                     put_backspread(s, k1, k2, p1, p2))

Invoke_long_combo ==
    /\ Idle
    /\ \E s \in Spots, k1, k2 \in Strikes,
          p1, p2 \in LegPremiums :
              Invoke("long_combo", s, <<k1, k2>>, <<p1, p2>>, k2,
                     long_combo(s, k1, k2, p1, p2))

Invoke_long_strangle ==
    /\ Idle
    /\ \E s \in Spots, k1, k2 \in Strikes,
          p1, p2 \in LegPremiums :
              Invoke("long_strangle", s, <<k1, k2>>, <<p1, p2>>, k2,
                     long_strangle(s, k1, k2, p1, p2))

Invoke_short_strangle ==
    /\ Idle
    /\ \E s \in Spots, k1, k2 \in Strikes,
          p1, p2 \in LegPremiums :
              Invoke("short_strangle", s, <<k1, k2>>, <<p1, p2>>, k2,
                     short_strangle(s, k1, k2, p1, p2))

Invoke_long_call_ladder ==
    /\ Idle
    /\ \E s \in Spots, k1, k2, k3 \in Strikes,
          p1, p2, p3 \in LegPremiums :
              Invoke("long_call_ladder", s, <<k1, k2, k3>>, <<p1, p2, p3>>, k3,
                     long_call_ladder(s, k1, k2, k3, p1, p2, p3))

Invoke_long_put_ladder ==
    /\ Idle
    /\ \E s \in Spots, k1, k2, k3 \in Strikes,
          p1, p2, p3 \in LegPremiums :
              Invoke("long_put_ladder", s, <<k1, k2, k3>>, <<p1, p2, p3>>, k3,
                     long_put_ladder(s, k1, k2, k3, p1, p2, p3))

Invoke_short_call_ladder ==
    /\ Idle
    /\ \E s \in Spots, k1, k2, k3 \in Strikes,
          p1, p2, p3 \in LegPremiums :
              Invoke("short_call_ladder", s, <<k1, k2, k3>>, <<p1, p2, p3>>, k3,
                     short_call_ladder(s, k1, k2, k3, p1, p2, p3))

Invoke_short_put_ladder ==
    /\ Idle
    /\ \E s \in Spots, k1, k2, k3 \in Strikes,
          p1, p2, p3 \in LegPremiums :
              Invoke("short_put_ladder", s, <<k1, k2, k3>>, <<p1, p2, p3>>, k3,
                     short_put_ladder(s, k1, k2, k3, p1, p2, p3))

Invoke_long_call_butterfly ==
    /\ Idle
    /\ \E s \in Spots, k1, k2, k3 \in Strikes,
          p1, p2, p3 \in LegPremiums :
              Invoke("long_call_butterfly", s, <<k1, k2, k3>>, <<p1, p2, p3>>, k3,
                     long_call_butterfly(s, k1, k2, k3, p1, p2, p3))

Invoke_short_call_butterfly ==
    /\ Idle
    /\ \E s \in Spots, k1, k2, k3 \in Strikes,
          p1, p2, p3 \in LegPremiums :
              Invoke("short_call_butterfly", s, <<k1, k2, k3>>, <<p1, p2, p3>>, k3,
                     short_call_butterfly(s, k1, k2, k3, p1, p2, p3))

Invoke_long_call_condor ==
    /\ Idle
    /\ \E s \in Spots, k1, k2, k3, k4 \in Strikes,
          p1, p2, p3, p4 \in LegPremiums :
              Invoke("long_call_condor", s, <<k1, k2, k3, k4>>, <<p1, p2, p3, p4>>, k4,
                     long_call_condor(s, k1, k2, k3, k4, p1, p2, p3, p4))

Invoke_short_call_condor ==
    /\ Idle
    /\ \E s \in Spots, k1, k2, k3, k4 \in Strikes,
          p1, p2, p3, p4 \in LegPremiums :
              Invoke("short_call_condor", s, <<k1, k2, k3, k4>>, <<p1, p2, p3, p4>>, k4,
                     short_call_condor(s, k1, k2, k3, k4, p1, p2, p3, p4))

NextLegs ==
    \/ Invoke_long_call
    \/ Invoke_long_put
    \/ Invoke_short_call
    \/ Invoke_short_put
    \/ Invoke_long_straddle
    \/ Invoke_short_straddle
    \/ Invoke_long_synthetic
    \/ Invoke_short_synthetic
    \/ Invoke_strap
    \/ Invoke_strip
    \/ Invoke_bull_call_spread
    \/ Invoke_bull_put_spread
    \/ Invoke_bear_call_spread
    \/ Invoke_call_backspread
    \/ Invoke_put_backspread
    \/ Invoke_long_combo
    \/ Invoke_long_strangle
    \/ Invoke_short_strangle
    \/ Invoke_long_call_ladder
    \/ Invoke_long_put_ladder
    \/ Invoke_short_call_ladder
    \/ Invoke_short_put_ladder
    \/ Invoke_long_call_butterfly
    \/ Invoke_short_call_butterfly
    \/ Invoke_long_call_condor
    \/ Invoke_short_call_condor
    \/ Discard

InitLegs ==
    /\ Init
    /\ engine = "explicit"

SpecLegs == InitLegs /\ [][NextLegs]_vars

----------------------------------------------------------------------------
(* Held-premium engine, src/src/strategy/option_strategies.py, the second  *)
(* class OptionStrategies (it replaces the first one of the same name).    *)
(* The functions read self.strike, self.premium, self.current and          *)
(* self.expiration, here the variables of the same names.                  *)

\* variant: expired on the expiration instant itself
expired_mut == current >= expiration

expired == current > expiration

\* variant: no expiration check
held_long_call_mut(s) ==
    max(s - strike, 0) - premium

held_long_call(s) ==
    IF expired THEN -premium
    ELSE max(s - strike, 0) - premium

\* variant: the call's intrinsic value in place of the put's
held_long_put_mut(s) ==
    IF expired THEN -premium
    ELSE max(s - strike, 0) - premium

held_long_put(s) ==
    IF expired THEN -premium
    ELSE max(strike - s, 0) - premium

\* variant: no cap at the premium
held_short_call_mut(s) ==
    IF expired THEN premium
    ELSE premium - (s - strike)

held_short_call(s) ==
    IF expired THEN premium
    ELSE min(premium - (s - strike), premium)

\* variant: no cap at the premium
held_short_put_mut(s) ==
    IF expired THEN premium
    ELSE premium - (strike - s)

held_short_put(s) ==
    IF expired THEN premium
    ELSE min(premium - (strike - s), premium)

\* variant: two calls for one put
held_long_straddle_mut(s) ==
    2 * held_long_call(s) + held_long_put(s)

held_long_straddle(s) ==
    held_long_call(s) + held_long_put(s)

held_short_straddle(s) ==
    held_short_call(s) + held_short_put(s)

held_long_synthetic(s) ==
    held_long_call(s) + held_short_put(s)

held_short_synthetic(s) ==
    held_short_call(s) + held_long_put(s)

held_bull_call_spread(s) ==
    held_long_call(s) - held_short_call(s + 10)

held_bull_put_spread(s) ==
    held_short_put(s) + held_long_put(s - 10)

held_bear_call_spread(s) ==
    held_short_call(s) + held_long_call(s + 10)

held_bear_put_spread(s) ==
    held_long_put(s) - held_short_put(s - 10)

held_call_backspread(s) ==
    -2 * held_short_call(s) + 3 * held_long_call(s + 10)

held_put_backspread(s) ==
    -2 * held_short_put(s) + 3 * held_long_put(s - 10)

held_long_combo(s) ==
    held_long_call(s + 10) + held_short_put(s - 10)

held_long_strangle(s) ==
    held_long_call(s + 10) + held_long_put(s - 10)

held_short_strangle(s) ==
    held_short_call(s + 10) + held_short_put(s - 10)

held_strap(s) ==
    2 * held_long_call(s) + held_long_put(s)

held_strip(s) ==
    held_long_call(s) + 2 * held_long_put(s)

held_long_call_butterfly(s) ==
    LET itm_call == held_long_call(s - 10)
        atm_calls == 2 * held_short_call(s)
        otm_call == held_long_call(s + 10)
    IN  itm_call - atm_calls + otm_call

held_long_put_butterfly(s) ==
    LET itm_put == held_long_put(s + 10)
        atm_puts == 2 * held_short_put(s)
        otm_put == held_long_put(s - 10)
    IN  itm_put - atm_puts + otm_put

\* variant: the call is bought, not sold
held_covered_call_mut(s) ==
    LET owned_stock_profit == s - strike
        call_option == held_long_call(s)
    IN  owned_stock_profit + call_option

held_covered_call(s) ==
    LET owned_stock_profit == s - strike
        call_option == held_short_call(s)
    IN  owned_stock_profit + call_option

held_covered_put(s) ==
    LET shorted_stock_profit == strike - s
        put_option == held_short_put(s)
    IN  shorted_stock_profit + put_option

\* variant: the put leg is left out
held_collar_mut(s) ==
    LET owned_stock_profit == s - strike
        call_option == held_short_call(s)
    IN  owned_stock_profit + call_option

held_collar(s) ==
    LET owned_stock_profit == s - strike
        put_option == held_long_put(s)
        call_option == held_short_call(s)
    IN  owned_stock_profit + put_option + call_option

(* One call on the held engine: name, spot, returned scalar.  No strategy  *)
(* function of this engine assigns a field.                                *)
HeldCall(name, s, v) ==
    /\ engine = "held"
    /\ op' = name
    /\ spot' = s
    /\ strikeArgs' = <<>>
    /\ premArgs' = <<>>
    /\ result' = <<v>>
    /\ UNCHANGED contract
    /\ UNCHANGED <<threads, writer, ctor, vec>>

\* expired() takes no spot; the recorded spot is left as it was
Held_expired ==
    HeldCall("expired", spot, expired)

Held_long_call ==
    \E s \in Spots : HeldCall("long_call", s, held_long_call(s))

Held_long_put ==
    \E s \in Spots : HeldCall("long_put", s, held_long_put(s))

Held_short_call ==
    \E s \in Spots : HeldCall("short_call", s, held_short_call(s))

Held_short_put ==
    \E s \in Spots : HeldCall("short_put", s, held_short_put(s))

Held_long_straddle ==
    \E s \in Spots : HeldCall("long_straddle", s, held_long_straddle(s))

Held_short_straddle ==
    \E s \in Spots : HeldCall("short_straddle", s, held_short_straddle(s))

Held_long_synthetic ==
    \E s \in Spots : HeldCall("long_synthetic", s, held_long_synthetic(s))

Held_short_synthetic ==
    \E s \in Spots : HeldCall("short_synthetic", s, held_short_synthetic(s))

Held_bull_call_spread ==
    \E s \in Spots : HeldCall("bull_call_spread", s, held_bull_call_spread(s))

Held_bull_put_spread ==
    \E s \in Spots : HeldCall("bull_put_spread", s, held_bull_put_spread(s))

Held_bear_call_spread ==
    \E s \in Spots : HeldCall("bear_call_spread", s, held_bear_call_spread(s))

Held_bear_put_spread ==
    \E s \in Spots : HeldCall("bear_put_spread", s, held_bear_put_spread(s))

Held_call_backspread ==
    \E s \in Spots : HeldCall("call_backspread", s, held_call_backspread(s))

Held_put_backspread ==
    \E s \in Spots : HeldCall("put_backspread", s, held_put_backspread(s))

Held_long_combo ==
    \E s \in Spots : HeldCall("long_combo", s, held_long_combo(s))

Held_long_strangle ==
    \E s \in Spots : HeldCall("long_strangle", s, held_long_strangle(s))

Held_short_strangle ==
    \E s \in Spots : HeldCall("short_strangle", s, held_short_strangle(s))

Held_strap ==
    \E s \in Spots : HeldCall("strap", s, held_strap(s))

Held_strip ==
    \E s \in Spots : HeldCall("strip", s, held_strip(s))

Held_long_call_butterfly ==
    \E s \in Spots : HeldCall("long_call_butterfly", s, held_long_call_butterfly(s))

Held_long_put_butterfly ==
    \E s \in Spots : HeldCall("long_put_butterfly", s, held_long_put_butterfly(s))

Held_covered_call ==
    \E s \in Spots : HeldCall("covered_call", s, held_covered_call(s))

Held_covered_put ==
    \E s \in Spots : HeldCall("covered_put", s, held_covered_put(s))

Held_collar ==
    \E s \in Spots : HeldCall("collar", s, held_collar(s))

NextHeld ==
    \/ Held_expired
    \/ Held_long_call
    \/ Held_long_put
    \/ Held_short_call
    \/ Held_short_put
    \/ Held_long_straddle
    \/ Held_short_straddle
    \/ Held_long_synthetic
    \/ Held_short_synthetic
    \/ Held_bull_call_spread
    \/ Held_bull_put_spread
    \/ Held_bear_call_spread
    \/ Held_bear_put_spread
    \/ Held_call_backspread
    \/ Held_put_backspread
    \/ Held_long_combo
    \/ Held_long_strangle
    \/ Held_short_strangle
    \/ Held_strap
    \/ Held_strip
    \/ Held_long_call_butterfly
    \/ Held_long_put_butterfly
    \/ Held_covered_call
    \/ Held_covered_put
    \/ Held_collar

----------------------------------------------------------------------------
Next == NextExplicit \/ NextHeld

Spec == Init /\ [][Next]_vars

----------------------------------------------------------------------------
(* Two calls running concurrently on one explicit-engine instance, one     *)
(* statement at a time.  bull_call_spread (lines 154-162) and long_strangle *)
(* (lines 321-328) have the same shape:                                    *)
(*     set1  self.strike = lower_strike                                    *)
(*     leg1  first payoff  = self.<primitive>(spot, premium)               *)
(*     set2  self.strike = upper_strike                                    *)
(*     leg2  second payoff = self.<primitive>(spot, premium)               *)
(*     ret   net_payoff = ...; return (first, second, net_payoff)          *)
(* A primitive reads self.strike once.  threads[t] is the frame of thread  *)
(* t: function, arguments, position, leg payoffs so far, returned tuple,   *)
(* and foreign: whether a leg of t read a strike assigned by another       *)
(* thread.                                                                 *)

Threads == {1, 2}

\* thread 1 calls bull_call_spread, thread 2 calls long_strangle
RaceFunction(t) == IF t = 1 THEN "bull_call_spread" ELSE "long_strangle"

\* spots strictly between the strikes: 95, 105
RaceSpots == {s \in Spots : s % 10 = 5 /\ 10 * MinStrike < s /\ s < 10 * MaxStrike}

\* variant: both legs take the first premium argument
LegPayoff_mut(fn, leg, self_strike, s, ps) ==
    IF fn = "bull_call_spread"
    THEN IF leg = 1 THEN long_call(self_strike, s, ps[1])
                    ELSE short_call(self_strike, s, ps[1])
    ELSE IF leg = 1 THEN long_put(self_strike, s, ps[1])
                    ELSE long_call(self_strike, s, ps[1])

\* the leg statements: bull_call_spread(spot, lower_strike, upper_strike,
\* lower_premium, upper_premium) lines 155 and 158; long_strangle(spot,
\* lower_strike, upper_strike, call_premium, put_premium) lines 322 and 325
LegPayoff(fn, leg, self_strike, s, ps) ==
    IF fn = "bull_call_spread"
    THEN IF leg = 1 THEN long_call(self_strike, s, ps[1])
                    ELSE short_call(self_strike, s, ps[2])
    ELSE IF leg = 1 THEN long_put(self_strike, s, ps[2])
                    ELSE long_call(self_strike, s, ps[1])

\* the frames a call can start with; the two premiums of a call differ
Frames(t) ==
    [fn : {RaceFunction(t)}, spot : RaceSpots,
     ks : Strikes \X Strikes,
     ps : {ps \in LegPremiums \X LegPremiums : ps[1] # ps[2]},
     pc : {"set1"}, legs : {<<>>}, ret : {<<>>}, foreign : {FALSE}]

InitRace ==
    /\ InitExplicit
    /\ op = "init"
    /\ spot = 0
    /\ strikeArgs = <<>>
    /\ premArgs = <<>>
    /\ result = <<>>
    /\ threads \in [Threads -> UNION {Frames(t) : t \in Threads}]
    /\ \A t \in Threads : threads[t] \in Frames(t)
    /\ writer = 0
    /\ ctor = <<>>
    /\ vec = <<>>

RaceAssign(t) ==
    /\ threads[t].pc \in {"set1", "set2"}
    /\ strike' = threads[t].ks[IF threads[t].pc = "set1" THEN 1 ELSE 2]
    /\ writer' = t
    /\ threads' = [threads EXCEPT
                     ![t].pc = IF threads[t].pc = "set1" THEN "leg1" ELSE "leg2"]
    /\ UNCHANGED <<engine, strike0, premium, expiration, current,
                   op, spot, strikeArgs, premArgs, result, ctor, vec>>

RaceLeg(t) ==
    /\ threads[t].pc \in {"leg1", "leg2"}
    /\ LET f == threads[t]
           leg == IF f.pc = "leg1" THEN 1 ELSE 2
       IN  threads' = [threads EXCEPT
                         ![t].legs = Append(f.legs,
                                       LegPayoff(f.fn, leg, strike, f.spot, f.ps)),
                         ![t].foreign = f.foreign \/ writer # t,
                         ![t].pc = IF leg = 1 THEN "set2" ELSE "ret"]
    /\ UNCHANGED <<contract, op, spot, strikeArgs, premArgs, result, writer,
                   ctor, vec>>

RaceReturn(t) ==
    /\ threads[t].pc = "ret"
    /\ LET f == threads[t]
       IN  threads' = [threads EXCEPT
                         ![t].ret = <<f.legs[1], f.legs[2], f.legs[1] + f.legs[2]>>,
                         ![t].pc = "done"]
    /\ UNCHANGED <<contract, op, spot, strikeArgs, premArgs, result, writer,
                   ctor, vec>>

Race_assign == \E t \in Threads : RaceAssign(t)

Race_leg == \E t \in Threads : RaceLeg(t)

Race_return == \E t \in Threads : RaceReturn(t)

NextRace ==
    \/ Race_assign
    \/ Race_leg
    \/ Race_return

SpecRace == InitRace /\ [][NextRace]_vars

----------------------------------------------------------------------------
(* The constructors called with arbitrary Python values.  A Python value   *)
(* is a record of its type and its content: s the characters of a str, n   *)
(* the numbers of an int, a float or a datetime, tzinfo of a datetime.     *)
(* op = "new" while the constructor has not run, "init" once it has        *)
(* returned an instance, "ValueError" once it has raised; the fields are   *)
(* Unset until an instance exists.                                         *)

PyInt(n) == [type |-> "int", s |-> <<>>, n |-> <<n>>, tzinfo |-> "None"]

PyFloat(n) == [type |-> "float", s |-> <<>>, n |-> <<n>>, tzinfo |-> "None"]

PyStr(t) == [type |-> "str", s |-> t, n |-> <<>>, tzinfo |-> "None"]

PyNone == [type |-> "NoneType", s |-> <<>>, n |-> <<>>, tzinfo |-> "None"]

\* datetime(year, month, day, 0, 0), naive
PyDatetime(y, m, d) == [type |-> "datetime", s |-> <<>>, n |-> <<y, m, d, 0, 0>>, tzinfo |-> "None"]

Unset == [type |-> "unset", s |-> <<>>, n |-> <<>>, tzinfo |-> "None"]

\* isinstance(x, (int, float))
IsNumber(x) == x.type \in {"int", "float"}

\* datetime.replace(tzinfo=timezone.utc)
replace_utc(dt) == [dt EXCEPT !.tzinfo = "UTC"]

Digits == <<"0", "1", "2", "3", "4", "5", "6", "7", "8", "9">>

IsDigit(c) == \E i \in 1..10 : Digits[i] = c

DigitValue(c) == (CHOOSE i \in 1..10 : Digits[i] = c) - 1

\* value of a text of digits (a leading blank counts as 0)
RECURSIVE Number(_)
Number(t) ==
    IF t = <<>> THEN 0
    ELSE 10 * Number(SubSeq(t, 1, Len(t) - 1))
         + (IF IsDigit(t[Len(t)]) THEN DigitValue(t[Len(t)]) ELSE 0)

\* %Y : \d\d\d\d
MatchesY(t) == Len(t) = 4 /\ \A i \in 1..4 : IsDigit(t[i])

\* %m : 1[0-2]|0[1-9]|[1-9]
MatchesM(t) ==
    \/ Len(t) = 2 /\ t[1] = "1" /\ t[2] \in {"0", "1", "2"}
    \/ Len(t) = 2 /\ t[1] = "0" /\ IsDigit(t[2]) /\ t[2] # "0"
    \/ Len(t) = 1 /\ IsDigit(t[1]) /\ t[1] # "0"

\* %d : 3[0-1]|[1-2]\d|0[1-9]|[1-9]| [1-9]
MatchesD(t) ==
    \/ Len(t) = 2 /\ t[1] = "3" /\ t[2] \in {"0", "1"}
    \/ Len(t) = 2 /\ t[1] \in {"1", "2"} /\ IsDigit(t[2])
    \/ Len(t) = 2 /\ t[1] \in {"0", " "} /\ IsDigit(t[2]) /\ t[2] # "0"
    \/ Len(t) = 1 /\ IsDigit(t[1]) /\ t[1] # "0"

IsLeap(y) == (y % 4 = 0 /\ y % 100 # 0) \/ y % 400 = 0

DaysInMonth(y, m) ==
    IF m = 2 THEN (IF IsLeap(y) THEN 29 ELSE 28)
    ELSE IF m \in {4, 6, 9, 11} THEN 30 ELSE 31

\* variant: any one- or two-digit month and day is accepted
strptime_mut(t) ==
    LET dashes == {i \in 1..Len(t) : t[i] = "-"}
        j == CHOOSE i \in dashes : i > 5
        ok == /\ Len(t) >= 8 /\ 5 \in dashes
              /\ \E i \in dashes : i > 5
              /\ \A i \in 1..4 : IsDigit(t[i])
    IN  IF ok
        THEN [ok |-> TRUE,
              dt |-> PyDatetime(Number(SubSeq(t, 1, 4)),
                                Number(SubSeq(t, 6, j - 1)),
                                Number(SubSeq(t, j + 1, Len(t))))]
        ELSE [ok |-> FALSE, dt |-> Unset]

\* datetime.strptime(t, '%Y-%m-%d'): the whole text must be
\* <year>-<month>-<day> and name a day of the calendar; ok = FALSE stands
\* for the ValueError it raises otherwise
strptime(t) ==
    LET dashes == {i \in 1..Len(t) : t[i] = "-"}
        j == CHOOSE i \in dashes : i > 5
        matches == /\ Cardinality(dashes) = 2
                   /\ 5 \in dashes
                   /\ \E i \in dashes : i > 5
                   /\ MatchesY(SubSeq(t, 1, 4))
                   /\ MatchesM(SubSeq(t, 6, j - 1))
                   /\ MatchesD(SubSeq(t, j + 1, Len(t)))
        y == Number(SubSeq(t, 1, 4))
        m == Number(SubSeq(t, 6, j - 1))
        d == Number(SubSeq(t, j + 1, Len(t)))
    IN  IF matches /\ y >= 1 /\ d <= DaysInMonth(y, m)
        THEN [ok |-> TRUE, dt |-> PyDatetime(y, m, d)]
        ELSE [ok |-> FALSE, dt |-> Unset]

(* Arguments the constructors are called with.                             *)

YearTexts == {<<"2", "0", "2", "4">>, <<"2", "0", "2", "5">>, <<"2", "4">>,
              <<"0", "0", "0", "0">>}

MonthTexts == {<<"0", "2">>, <<"2">>, <<"1", "2">>, <<"1", "3">>, <<"0", "0">>}

DayTexts == {<<"2", "9">>, <<"3", "0">>, <<"3", "1">>, <<"3", "2">>,
             <<"5">>, <<"0", "5">>, <<>>}

Separators == {"-", "/"}

Trailers == {<<>>, <<"x">>}

DateTexts ==
    {y \o <<c>> \o m \o <<c>> \o d \o x :
        y \in YearTexts, c \in Separators, m \in MonthTexts,
        d \in DayTexts, x \in Trailers}

NotNumbers == {PyStr(<<"1", "0", "0">>), PyNone}

StrikeValues == {PyInt(k) : k \in Strikes} \cup {PyFloat(100)} \cup NotNumbers

PremiumValues == {PyInt(p) : p \in Premiums} \cup {PyStr(<<"8">>)}

ExpirationValues ==
    {PyStr(t) : t \in DateTexts} \cup {replace_utc(PyDatetime(2024, 12, 31))}

CurrentTimeValues == {PyNone, replace_utc(PyDatetime(2025, 1, 1))}

\* what datetime.now(timezone.utc) can return (to the day)
Nows == {replace_utc(PyDatetime(2024, 6, 1)), replace_utc(PyDatetime(2026, 1, 1))}

ExplicitArgs ==
    [strike : StrikeValues, premium : {Unset}, expiration : {Unset},
     current_time : {Unset}]

HeldArgs ==
    [strike : StrikeValues, premium : PremiumValues,
     expiration : ExpirationValues, current_time : CurrentTimeValues]

InitConstruct ==
    /\ \/ engine = "explicit" /\ ctor \in ExplicitArgs
       \/ engine = "held" /\ ctor \in HeldArgs
    /\ op = "new"
    /\ strike = Unset
    /\ strike0 = Unset
    /\ premium = Unset
    /\ expiration = Unset
    /\ current = Unset
    /\ spot = 0
    /\ strikeArgs = <<>>
    /\ premArgs = <<>>
    /\ result = <<>>
    /\ threads = <<>>
    /\ writer = 0
    /\ vec = <<>>

\* src/src/option_strategies.py lines 6-19
New_explicit ==
    /\ engine = "explicit"
    /\ op = "new"
    /\ IF ~IsNumber(ctor.strike)
       THEN /\ op' = "ValueError"
            /\ UNCHANGED <<strike, strike0>>
       ELSE /\ strike' = ctor.strike
            /\ strike0' = ctor.strike
            /\ op' = "init"
    /\ UNCHANGED <<engine, premium, expiration, current, spot, strikeArgs,
                   premArgs, result, threads, writer, ctor, vec>>

\* src/src/strategy/option_strategies.py lines 99-106, the second __init__
New_held ==
    /\ engine = "held"
    /\ op = "new"
    /\ LET parsed == strptime(ctor.expiration.s)
       IN  IF ctor.expiration.type = "str" /\ ~parsed.ok
           THEN /\ op' = "ValueError"
                /\ UNCHANGED <<strike, strike0, premium, expiration, current>>
           ELSE /\ expiration' = IF ctor.expiration.type = "str"
                                 THEN replace_utc(parsed.dt)
                                 ELSE ctor.expiration
                /\ strike' = ctor.strike
                /\ strike0' = ctor.strike
                /\ premium' = ctor.premium
                /\ current' \in IF ctor.current_time.type # "NoneType"
                                THEN {ctor.current_time}
                                ELSE Nows
                /\ op' = "init"
    /\ UNCHANGED <<engine, spot, strikeArgs, premArgs, result, threads,
                   writer, ctor, vec>>

NextConstruct ==
    \/ New_explicit
    \/ New_held

SpecConstruct == InitConstruct /\ [][NextConstruct]_vars

----------------------------------------------------------------------------
(* The functions with one strike per leg, statement by statement.  Each    *)
(* body is a sequence of assignments to self.strike and of legs: a         *)
(* primitive called with a premium, its payoff multiplied.  A leg reads    *)
(* self.strike as the statements before it, or else the caller, left it.   *)

StrikeComposites ==
    {"bull_call_spread", "bull_put_spread", "bear_call_spread",
     "call_backspread", "put_backspread", "long_combo", "long_strangle",
     "short_strangle", "long_call_ladder", "long_put_ladder",
     "short_call_ladder", "short_put_ladder", "long_call_butterfly",
     "short_call_butterfly", "long_call_condor", "short_call_condor"}

\* self.strike = k
SetStrike(k) == [kind |-> "assign", k |-> k, prim |-> "", prem |-> 0, mult |-> 0]

\* <local> = mult * self.<prim>(spot, prem)
Leg(mult, prim, prem) == [kind |-> "leg", k |-> 0, prim |-> prim, prem |-> prem, mult |-> mult]

\* the statements of fn called with the strikes ks and the premiums ps, both
\* in the order of its parameters
Body(fn, ks, ps) ==
    CASE fn = "bull_call_spread" ->
           <<SetStrike(ks[1]), Leg(1, "long_call", ps[1]),
             SetStrike(ks[2]), Leg(1, "short_call", ps[2])>>
      [] fn = "bull_put_spread" ->
           <<SetStrike(ks[1]), Leg(1, "long_put", ps[1]),
             SetStrike(ks[2]), Leg(1, "short_put", ps[2])>>
      [] fn = "bear_call_spread" ->
           <<SetStrike(ks[2]), Leg(1, "long_put", ps[2]),
             SetStrike(ps[1]), Leg(1, "short_put", ps[1])>>
      [] fn = "call_backspread" ->
           <<SetStrike(ks[1]), Leg(1, "short_call", ps[1]),
             SetStrike(ks[2]), Leg(2, "long_call", ps[2])>>
      [] fn = "put_backspread" ->
           <<SetStrike(ks[1]), Leg(1, "short_put", ps[1]),
             SetStrike(ks[2]), Leg(2, "long_put", ps[2])>>
      [] fn = "long_combo" ->
           <<SetStrike(ks[1]), Leg(1, "short_put", ps[2]),
             SetStrike(ks[2]), Leg(2, "long_call", ps[1])>>
      [] fn = "long_strangle" ->
           <<SetStrike(ks[1]), Leg(1, "long_put", ps[2]),
             SetStrike(ks[2]), Leg(1, "long_call", ps[1])>>
      [] fn = "short_strangle" ->
           <<SetStrike(ks[1]), Leg(1, "short_put", ps[2]),
             SetStrike(ks[2]), Leg(1, "short_call", ps[1])>>
      [] fn = "long_call_ladder" ->
           <<SetStrike(ks[1]), Leg(1, "long_call", ps[1]),
             SetStrike(ks[2]), Leg(1, "short_call", ps[2]),
             SetStrike(ks[3]), Leg(1, "long_call", ps[3])>>
      [] fn = "long_put_ladder" ->
           <<SetStrike(ks[1]), Leg(1, "long_put", ps[1]),
             SetStrike(ks[2]), Leg(1, "short_put", ps[2]),
             SetStrike(ks[3]), Leg(1, "long_put", ps[3])>>
      [] fn = "short_call_ladder" ->
           <<SetStrike(ks[1]), Leg(1, "short_call", ps[1]),
             SetStrike(ks[2]), Leg(1, "long_call", ps[2]),
             SetStrike(ks[3]), Leg(1, "long_call", ps[3])>>
      [] fn = "short_put_ladder" ->
           <<SetStrike(ks[1]), Leg(1, "short_put", ps[1]),
             SetStrike(ks[2]), Leg(1, "long_put", ps[2]),
             SetStrike(ks[3]), Leg(1, "long_put", ps[3])>>
      [] fn = "long_call_butterfly" ->
           <<SetStrike(ks[1]), Leg(1, "long_call", ps[1]),
             SetStrike(ks[2]), Leg(2, "short_call", ps[2]),
             SetStrike(ks[3]), Leg(1, "long_call", ps[3])>>
      [] fn = "short_call_butterfly" ->
           <<SetStrike(ks[1]), Leg(1, "short_call", ps[1]),
             SetStrike(ks[2]), Leg(2, "long_call", ps[2]),
             SetStrike(ks[3]), Leg(1, "short_call", ps[3])>>
      [] fn = "long_call_condor" ->
           <<SetStrike(ks[1]), Leg(1, "long_call", ps[1]),
             SetStrike(ks[2]), Leg(1, "short_call", ps[2]),
             SetStrike(ks[3]), Leg(1, "short_call", ps[3]),
             SetStrike(ks[4]), Leg(1, "long_call", ps[4])>>
      [] fn = "short_call_condor" ->
           <<SetStrike(ks[1]), Leg(1, "short_call", ps[1]),
             SetStrike(ks[2]), Leg(1, "long_call", ps[2]),
             SetStrike(ks[3]), Leg(1, "long_call", ps[3]),
             SetStrike(ks[4]), Leg(1, "short_call", ps[4])>>

\* number of strikes (and of premiums) fn takes
Legs(fn) == Len(Body(fn, <<0, 0, 0, 0>>, <<0, 0, 0, 0>>)) \div 2

\* self.<prim>(s, prem) on an instance whose strike is self_strike
Primitive(prim, self_strike, s, prem) ==
    CASE prim = "long_call" -> long_call(self_strike, s, prem)
      [] prim = "long_put" -> long_put(self_strike, s, prem)
      [] prim = "short_call" -> short_call(self_strike, s, prem)
      [] prim = "short_put" -> short_put(self_strike, s, prem)

\* variant: the assignment to self.strike is lost
Assigned_mut(fr, st) ==
    fr

\* the frame after the statement self.strike = st.k
Assigned(fr, st) ==
    [fr EXCEPT !.strike = st.k]

\* the frame (self.strike and the payoffs of the legs computed so far)
\* after the statements of body, run in order from the frame fr
RECURSIVE Exec(_, _, _)
Exec(body, fr, s) ==
    IF body = <<>>
    THEN fr
    ELSE LET st == Head(body)
             next == IF st.kind = "assign"
                     THEN Assigned(fr, st)
                     ELSE [fr EXCEPT !.legs = Append(@, st.mult * Primitive(st.prim, fr.strike, s, st.prem))]
         IN  Exec(Tail(body), next, s)

RECURSIVE Total(_)
Total(legs) == IF legs = <<>> THEN 0 ELSE Head(legs) + Total(Tail(legs))

\* net_payoff and the return statement of fn, from the payoffs of the legs
\* in the order the body computed them
Returned(fn, legs) ==
    CASE fn = "bull_put_spread" -> <<legs[2], legs[2], legs[2]>>
      [] fn = "bear_call_spread" -> <<legs[2], legs[1], legs[1] + legs[2]>>
      [] OTHER -> Append(legs, Total(legs))

\* what fn(s, *ks, *ps) returns on an instance whose strike is self_strike
Call(fn, self_strike, s, ks, ps) ==
    Returned(fn, Exec(Body(fn, ks, ps), [strike |-> self_strike, legs |-> <<>>], s).legs)

\* one call of fn on the instance as the calls before left it
Execute(fn) ==
    /\ Idle
    /\ \E s \in Spots, ks \in [1..Legs(fn) -> Strikes], ps \in [1..Legs(fn) -> LegPremiums] :
          LET fr == Exec(Body(fn, ks, ps), [strike |-> strike, legs |-> <<>>], s)
          IN  ExplicitCall(fn, s, ks, ps, fr.strike, Returned(fn, fr.legs))

NextBody ==
    \/ \E fn \in StrikeComposites : Execute(fn)
    \/ Discard

SpecBody == InitLegs /\ [][NextBody]_vars

----------------------------------------------------------------------------
(* The applications' element-wise evaluations.  np.vectorize(pyfunc)(xs)   *)
(* calls pyfunc on the elements of xs in order and collects what it        *)
(* returns; an exception of pyfunc ends the evaluation.  vec is the        *)
(* evaluation: the line of the call site, the method pyfunc calls, the     *)
(* arguments it passes after the spot price, xs, and the payoffs           *)
(* collected so far.  op is "vectorize" while elements remain, "return"    *)
(* once the call site has its value, "TypeError" once a call has raised.   *)

MaxVec == 3

\* np.linspace(lower, upper, n): n spot prices in strictly ascending order
SpotRanges ==
    {q \in UNION {[1..n -> Spots] : n \in 1..MaxVec} :
        \A i \in 1..(Len(q) - 1) : q[i] < q[i + 1]}

\* positional parameters of the method, self excluded
Arity(fn) ==
    IF engine = "explicit"
    THEN CASE fn = "long_call" -> 2
           [] fn = "short_call" -> 2
    ELSE CASE fn = "long_call" -> 1
           [] fn = "short_call" -> 1

\* strategies.<fn>(s, *args) on the instance
Method(fn, s, args) ==
    IF engine = "explicit"
    THEN CASE fn = "long_call" -> long_call(strike, s, args[1])
           [] fn = "short_call" -> short_call(strike, s, args[1])
    ELSE CASE fn = "long_call" -> held_long_call(s)
           [] fn = "short_call" -> held_short_call(s)
           [] fn = "strap" -> held_strap(s)
           [] fn = "strip" -> held_strip(s)

Vectorize(line, fn, args, q) ==
    /\ op = "init"
    /\ op' = "vectorize"
    /\ vec' = [line |-> line, fn |-> fn, args |-> args, spots |-> q,
               out |-> <<>>]
    /\ UNCHANGED <<contract, spot, strikeArgs, premArgs, result, threads,
                   writer, ctor>>

\* src/app/app.py line 66: strategies.long_call(spot, lower_strike,
\* lower_premium) over spot_prices (line 67 follows once this has returned)
App_bull_call_spread ==
    /\ engine = "explicit"
    /\ op = "init"
    /\ \E q \in SpotRanges, lower_strike \in Strikes,
          lower_premium \in LegPremiums :
              Vectorize(66, "long_call", <<lower_strike, lower_premium>>, q)

\* src/app/app.py line 76: strategies.long_call(spot, premium) over
\* spot_prices
App_long_call ==
    /\ engine = "explicit"
    /\ op = "init"
    /\ \E q \in SpotRanges, prem \in Premiums :
          Vectorize(76, "long_call", <<prem>>, q)

\* src/src/app.py line 142: strategies.long_call(x, strike, premium) over
\* spot_range (line 143 follows once this has returned)
SrcApp_bull_call_spread ==
    /\ engine = "held"
    /\ op = "init"
    /\ \E q \in SpotRanges :
          Vectorize(142, "long_call", <<strike, premium>>, q)

\* src/src/app.py line 146: for any other selected strategy
\* get_strategy_payoffs evaluates nothing and returns None, []
SrcApp_other ==
    /\ engine = "held"
    /\ op = "init"
    /\ \E q \in SpotRanges, selected_strategy \in {"strap", "strip"} :
          /\ op' = "return"
          /\ vec' = [line |-> 146, fn |-> selected_strategy, args |-> <<>>,
                     spots |-> q, out |-> <<>>]
    /\ UNCHANGED <<contract, spot, strikeArgs, premArgs, result, threads,
                   writer, ctor>>

\* one call of pyfunc, on the next element
Vectorize_call ==
    /\ op = "vectorize"
    /\ LET i == Len(vec.out) + 1
       IN  IF Len(vec.args) + 1 # Arity(vec.fn)
           THEN /\ op' = "TypeError"
                /\ UNCHANGED vec
           ELSE /\ vec' = [vec EXCEPT !.out =
                               Append(@, Method(vec.fn, vec.spots[i], vec.args))]
                /\ op' = IF i = Len(vec.spots) THEN "return" ELSE "vectorize"
    /\ UNCHANGED <<contract, spot, strikeArgs, premArgs, result, threads,
                   writer, ctor>>

NextApp ==
    \/ App_bull_call_spread
    \/ App_long_call
    \/ SrcApp_bull_call_spread
    \/ SrcApp_other
    \/ Vectorize_call

SpecApp == Init /\ [][NextApp]_vars

----------------------------------------------------------------------------
(* Vocabulary of the properties.                                           *)

\* the premium a primitive call is evaluated with: the argument in the
\* explicit engine, the held field in the held engine
Prem == IF engine = "held" THEN premium ELSE premArgs[1]

\* the contract is not expired (the explicit engine holds no expiration)
Live == engine = "held" => ~(current > expiration)

\* intrinsic values, written out without the engines' helpers
CallValue == IF spot > strike THEN spot - strike ELSE 0

PutValue == IF strike > spot THEN strike - spot ELSE 0

----------------------------------------------------------------------------
\* C1: on a non-expired contract long_call returns max(S - K, 0) - p, in
\* both engines; with K = 100 and p = 10 it returns -10 at spot 90 and at
\* spot 100, and 10 at spot 120.
C1_LongCallPayoff ==
    (op = "long_call" /\ Live) =>
        /\ result = <<CallValue - Prem>>
        /\ (strike = 100 /\ Prem = 10 /\ spot = 90) => result = <<-10>>
        /\ (strike = 100 /\ Prem = 10 /\ spot = 100) => result = <<-10>>
        /\ (strike = 100 /\ Prem = 10 /\ spot = 120) => result = <<10>>

C1_Witness ==
    /\ op = "long_call" /\ Live
    /\ strike = 100 /\ Prem = 10 /\ spot = 120
    /\ result = <<10>>

\* C2: on a non-expired contract long_put returns max(K - S, 0) - p, in
\* both engines.
C2_LongPutPayoff ==
    (op = "long_put" /\ Live) => result = <<PutValue - Prem>>

C2_Witness ==
    /\ op = "long_put" /\ Live
    /\ engine = "held"
    /\ spot < strike
    /\ result = <<strike - spot - premium>>

\* C3: on a non-expired contract short_call returns p - max(S - K, 0) and
\* short_put returns p - max(K - S, 0), in both engines (so the held
\* engine's min form equals the explicit engine's max form); with K = 100
\* and p = 10, short_put(80) = -10.
C3_ShortPayoff ==
    /\ (op = "short_call" /\ Live) => result = <<Prem - CallValue>>
    /\ (op = "short_put" /\ Live) =>
          /\ result = <<Prem - PutValue>>
          /\ (strike = 100 /\ Prem = 10 /\ spot = 80) => result = <<-10>>

C3_Witness ==
    /\ op = "short_put" /\ Live
    /\ engine = "held"
    /\ strike = 100 /\ premium = 10 /\ spot = 80
    /\ result = <<-10>>

\* C4: expired or not, the payoff returned by short_call and by short_put
\* never exceeds the premium.
C4_ShortCappedByPremium ==
    op \in {"short_call", "short_put"} => result[1] <= Prem

C4_Witness ==
    /\ op = "short_call"
    /\ engine = "held" /\ ~(current > expiration)
    /\ spot < strike
    /\ result = <<premium>>

\* C5: on a non-expired contract, a long_call and a short_call evaluated
\* one after the other at the same spot with the same strike and premium
\* return payoffs that sum to 0.
C5_LongShortCallZeroSum ==
    [][ ( /\ {op, op'} = {"long_call", "short_call"}
          /\ Live
          /\ spot' = spot
          /\ strike' = strike
          /\ Prem' = Prem )
        => result[1] + result'[1] = 0 ]_vars

C5_Witness ==
    /\ op = "short_call" /\ Live
    /\ spot > strike
    /\ Prem > 0
    /\ result = <<Prem - (spot - strike)>>

\* C6: on an expired contract, two evaluations of the same strategy
\* function of the held engine at any two spots return the same value.
C6_ExpiredSpotIndependent ==
    [][ ( /\ engine = "held"
          /\ current > expiration
          /\ op # "init"
          /\ op' = op )
        => result' = result ]_vars

\* C7: on an expired contract long_call and long_put return -premium and
\* short_call and short_put return +premium, for every spot.
C7_ExpiredPrimitives ==
    (engine = "held" /\ current > expiration) =>
        /\ op \in {"long_call", "long_put"} => result = <<-premium>>
        /\ op \in {"short_call", "short_put"} => result = <<premium>>

C7_Witness ==
    /\ engine = "held" /\ current > expiration
    /\ op = "long_put"
    /\ spot < strike
    /\ premium > 0
    /\ result = <<-premium>>

\* C8: expired() returns true exactly when current_time is strictly later
\* than expiration; when the two are equal it returns false and the
\* primitives still compute the intrinsic value.
C8_ExpiredStrictlyLater ==
    /\ op = "expired" => result = <<current > expiration>>
    /\ (engine = "held" /\ current = expiration) =>
          /\ op = "expired" => result = <<FALSE>>
          /\ op = "long_call" => result = <<CallValue - premium>>
          /\ op = "long_put" => result = <<PutValue - premium>>
          /\ op = "short_call" => result = <<premium - CallValue>>
          /\ op = "short_put" => result = <<premium - PutValue>>

C8_Witness ==
    /\ engine = "held" /\ current = expiration
    /\ op = "long_call"
    /\ spot > strike
    /\ result = <<spot - strike - premium>>

\* C9: long_synthetic(spot) equals long_call(spot) + short_put(spot) with
\* the same strike (and, in the explicit engine, the call_premium and
\* put_premium passed to long_synthetic); in the explicit engine it is the
\* net component of the returned tuple.
C9_SyntheticIsCallPlusPut ==
    op = "long_synthetic" =>
        IF engine = "held"
        THEN result = <<held_long_call(spot) + held_short_put(spot)>>
        ELSE Net(result) = long_call(strike, spot, premArgs[1])
                           + short_put(strike, spot, premArgs[2])

C9_Witness ==
    /\ op = "long_synthetic"
    /\ engine = "explicit"
    /\ spot < strike
    /\ premArgs[1] # premArgs[2]
    /\ Net(result) = premArgs[2] - premArgs[1] - (strike - spot)

\* C10: on a non-expired contract with equal call and put premiums, the
\* long_straddle net payoff at spot K + d equals the net payoff at spot
\* K - d, for every d > 0.
C10_StraddleSymmetry ==
    [][ ( /\ op = "long_straddle" /\ op' = "long_straddle"
          /\ Live
          /\ strike' = strike
          /\ spot > strike
          /\ spot' = strike - (spot - strike)
          /\ engine = "explicit" =>
                /\ premArgs[1] = premArgs[2]
                /\ premArgs' = premArgs )
        => Net(result') = Net(result) ]_vars

C10_Witness ==
    /\ op = "long_straddle" /\ Live
    /\ spot < strike
    /\ engine = "explicit" => premArgs[1] = premArgs[2]
    /\ Net(result) = (strike - spot) - 2 * Prem


\* C11: bull_call_spread of the explicit engine returns as net payoff
\* max(spot - lower_strike, 0) - max(spot - upper_strike, 0)
\* - (lower_premium - upper_premium); with strikes 90/110, premiums 8/3 and
\* spot 100 the net payoff is 5.
C11_BullCallSpreadNet ==
    (engine = "explicit" /\ op = "bull_call_spread") =>
        LET lower == IF spot > strikeArgs[1] THEN spot - strikeArgs[1] ELSE 0
            upper == IF spot > strikeArgs[2] THEN spot - strikeArgs[2] ELSE 0
        IN  /\ Net(result) = lower - upper - (premArgs[1] - premArgs[2])
            /\ (spot = 100 /\ strikeArgs = <<90, 110>> /\ premArgs = <<8, 3>>)
                  => Net(result) = 5

C11_Witness ==
    /\ engine = "explicit" /\ op = "bull_call_spread"
    /\ spot = 100 /\ strikeArgs = <<90, 110>> /\ premArgs = <<8, 3>>
    /\ Net(result) = 5

\* C13: in the explicit engine, after any strategy function returns the
\* held strike equals the strike given at construction.
C13_StrikeRestored ==
    engine = "explicit" => strike = strike0

\* C14: in the explicit engine a strategy call returns what the same call
\* returns as the first call after construction, whatever calls came
\* before it (stated for the functions that read the held strike:
\* primitives, straddles and synthetics).
C14_Reproducible ==
    engine = "explicit" =>
        /\ op = "long_call" =>
              result = <<long_call(strike0, spot, premArgs[1])>>
        /\ op = "long_put" =>
              result = <<long_put(strike0, spot, premArgs[1])>>
        /\ op = "short_call" =>
              result = <<short_call(strike0, spot, premArgs[1])>>
        /\ op = "short_put" =>
              result = <<short_put(strike0, spot, premArgs[1])>>
        /\ op = "long_straddle" =>
              result = long_straddle(strike0, spot, premArgs[1], premArgs[2])
        /\ op = "short_straddle" =>
              result = short_straddle(strike0, spot, premArgs[1], premArgs[2])
        /\ op = "long_synthetic" =>
              result = long_synthetic(strike0, spot, premArgs[1], premArgs[2])
        /\ op = "short_synthetic" =>
              result = short_synthetic(strike0, spot, premArgs[1], premArgs[2])

\* C12: for the long call butterfly with strikes 90/100/110 and equal wing
\* premiums, the net payoff at spot 100 is at least the net payoff at every
\* other spot: in the held engine with strike 100 (compared on two calls
\* made one after the other), and in the explicit engine (compared with
\* the value the function returns at spot 100 for the same arguments).
C12_ButterflyMaxAtBody ==
    /\ [][ ( /\ engine = "held"
             /\ strike = 100
             /\ op = "long_call_butterfly"
             /\ op' = "long_call_butterfly"
             /\ spot = 100 )
           => Net(result') <= Net(result) ]_vars
    /\ [] ( ( /\ engine = "explicit"
              /\ op = "long_call_butterfly"
              /\ strikeArgs = <<90, 100, 110>>
              /\ premArgs[1] = premArgs[3] )
            => Net(result) <= Net(long_call_butterfly(100, 90, 100, 110,
                                     premArgs[1], premArgs[2], premArgs[3])) )

\* sum of the components of a tuple before its last one
RECURSIVE SumTo(_, _)
SumTo(r, n) == IF n = 0 THEN 0 ELSE r[n] + SumTo(r, n - 1)

LegSum(r) == SumTo(r, Len(r) - 1)

Composites ==
    {"long_straddle", "short_straddle", "long_synthetic", "short_synthetic",
     "bull_call_spread", "bull_put_spread", "bear_call_spread",
     "call_backspread", "put_backspread", "long_combo", "long_strangle",
     "short_strangle", "strap", "strip", "long_call_ladder",
     "long_put_ladder", "short_call_ladder", "short_put_ladder",
     "long_call_butterfly", "short_call_butterfly", "long_call_condor",
     "short_call_condor"}

\* C20: every composite function of the explicit engine returns a tuple
\* whose last component equals the sum of the components before it.
C20_NetIsSumOfLegs ==
    (engine = "explicit" /\ op \in Composites) =>
        /\ Len(result) >= 3
        /\ Net(result) = LegSum(result)

\* what the call of thread t returns when it runs alone
Alone(t) ==
    LET f == threads[t]
    IN  IF f.fn = "bull_call_spread"
        THEN bull_call_spread(f.spot, f.ks[1], f.ks[2], f.ps[1], f.ps[2])
        ELSE long_strangle(f.spot, f.ks[1], f.ks[2], f.ps[1], f.ps[2])

\* C15: when two composite calls run concurrently on one explicit-engine
\* instance, a call returns a result different from the one it returns
\* alone only if one of its legs was evaluated at a strike written by the
\* other call; C15_Witness is an interleaving in which this happens.
C15_DivergenceIsForeignStrike ==
    \A t \in DOMAIN threads :
        (threads[t].pc = "done" /\ threads[t].ret # Alone(t))
            => threads[t].foreign

C15_Witness ==
    /\ DOMAIN threads = Threads
    /\ threads[1].pc = "done"
    /\ threads[1].foreign
    /\ threads[1].ks # threads[2].ks
    /\ threads[1].ret # Alone(1)

\* C16: constructing an engine with a strike that is not numeric fails
\* with an error and yields no instance, for the explicit engine and for
\* the effective held engine.
C16_NonNumericStrikeRejected ==
    (op # "new" /\ ~IsNumber(ctor.strike)) =>
        /\ op = "ValueError"
        /\ strike = Unset

\* C17: constructing the held engine with a premium that is supplied and
\* not numeric fails with an error at construction.
C17_NonNumericPremiumRejected ==
    (engine = "held" /\ op # "new" /\ ~IsNumber(ctor.premium)) =>
        /\ op = "ValueError"
        /\ premium = Unset

\* the texts that write the number n of a month or a day: two digits, or
\* one digit when n < 10
Written(n) ==
    {<<Digits[(n \div 10) + 1], Digits[(n % 10) + 1]>>}
        \cup (IF n < 10 THEN {<<Digits[n + 1]>>} ELSE {})

\* the text is <4 digits>-<month>-<day> and names a day of the calendar
\* (a one-digit day may be padded with a blank)
IsDateText(t) ==
    /\ Len(t) >= 8
    /\ \A i \in 1..4 : IsDigit(t[i])
    /\ Number(SubSeq(t, 1, 4)) >= 1
    /\ t[5] = "-"
    /\ \E j \in 7..8, m \in 1..12, d \in 1..31 :
          /\ t[j] = "-"
          /\ SubSeq(t, 6, j - 1) \in Written(m)
          /\ \/ SubSeq(t, j + 1, Len(t)) \in Written(d)
             \/ d < 10 /\ SubSeq(t, j + 1, Len(t)) = <<" ", Digits[d + 1]>>
          /\ d <= 30 \/ m \in {1, 3, 5, 7, 8, 10, 12}
          /\ m = 2 =>
                \/ d <= 28
                \/ d = 29 /\ LET y == Number(SubSeq(t, 1, 4))
                             IN  y % 4 = 0 /\ (y % 100 # 0 \/ y % 400 = 0)

\* IsDateText(t), and the date it names
DateOf(t) ==
    LET j == CHOOSE i \in 7..8 : t[i] = "-"
    IN  <<Number(SubSeq(t, 1, 4)), Number(SubSeq(t, 6, j - 1)),
          Number(SubSeq(t, j + 1, Len(t)))>>

\* C18: constructing the held engine with an expiration string that does
\* not parse as YYYY-MM-DD fails with an error; a string that does parse is
\* stored as that date at midnight, UTC.
C18_ExpirationParsed ==
    (engine = "held" /\ op # "new" /\ ctor.expiration.type = "str") =>
        IF IsDateText(ctor.expiration.s)
        THEN /\ op = "init"
             /\ expiration.type = "datetime"
             /\ expiration.n = DateOf(ctor.expiration.s) \o <<0, 0>>
             /\ expiration.tzinfo = "UTC"
        ELSE /\ op = "ValueError"
             /\ expiration = Unset

\* a leap day given with a one-digit month was stored
C18_Witness ==
    /\ engine = "held"
    /\ ctor.expiration.type = "str"
    /\ op = "init"
    /\ ctor.expiration.s = <<"2", "0", "2", "4", "-", "2", "-", "2", "9">>
    /\ expiration.n = <<2024, 2, 29, 0, 0>>
    /\ expiration.tzinfo = "UTC"

\* C19: evaluating a strategy element-wise over an ordered sequence of
\* spot prices yields a sequence of the same length whose i-th element is
\* the strategy's payoff at the i-th spot price, whatever the other
\* elements are.
C19_ElementWise ==
    op \in {"return", "TypeError"} =>
        /\ op = "return"
        /\ Len(vec.out) = Len(vec.spots)
        /\ \A i \in 1..Len(vec.spots) :
              vec.out[i] = Method(vec.fn, vec.spots[i], vec.args)

\* C21: on a non-expired contract the held engine's bull_call_spread
\* returns max(S - K, 0) - max(S - K - 10, 0), a long call at K plus a
\* short call at K + 10, and so never returns more than the spread of 10.
C21_HeldBullCallSpread ==
    (engine = "held" /\ op = "bull_call_spread" /\ Live) =>
        LET upper == IF spot > strike + 10 THEN spot - strike - 10 ELSE 0
        IN  /\ result = <<CallValue - upper>>
            /\ result[1] <= 10

\* C22: bear_call_spread of the explicit engine returns the short call
\* payoff at lower_strike with lower_premium, the long call payoff at
\* upper_strike with upper_premium, and their sum.
C22_BearCallSpreadLegs ==
    ( /\ engine = "explicit" /\ op = "bear_call_spread"
      /\ strikeArgs[1] < strikeArgs[2] ) =>
        LET lower == IF spot > strikeArgs[1] THEN spot - strikeArgs[1] ELSE 0
            upper == IF spot > strikeArgs[2] THEN spot - strikeArgs[2] ELSE 0
        IN  /\ result[1] = premArgs[1] - lower
            /\ result[2] = upper - premArgs[2]
            /\ result[3] = result[1] + result[2]

\* C23: bull_put_spread of the explicit engine returns first the long put
\* payoff max(lower_strike - S, 0) - lower_premium and second the short
\* put payoff at upper_strike with upper_premium.
C23_BullPutSpreadLegs ==
    ( /\ engine = "explicit" /\ op = "bull_put_spread"
      /\ strikeArgs[1] < strikeArgs[2] ) =>
        LET lower == IF strikeArgs[1] > spot THEN strikeArgs[1] - spot ELSE 0
            upper == IF strikeArgs[2] > spot THEN strikeArgs[2] - spot ELSE 0
        IN  /\ result[1] = lower - premArgs[1]
            /\ result[2] = premArgs[2] - upper

\* C24: the net payoff of long_combo is one long call at upper_strike with
\* call_premium plus one short put at lower_strike with put_premium.
C24_LongComboNet ==
    ( /\ engine = "explicit" /\ op = "long_combo"
      /\ strikeArgs[1] < strikeArgs[2] ) =>
        LET call == IF spot > strikeArgs[2] THEN spot - strikeArgs[2] ELSE 0
            put == IF strikeArgs[1] > spot THEN strikeArgs[1] - spot ELSE 0
        IN  Net(result) = (call - premArgs[1]) + (premArgs[2] - put)

\* C25: put_backspread evaluates its short put at upper_strike with
\* upper_premium and its two long puts at lower_strike with lower_premium,
\* and its net payoff is their sum.
C25_PutBackspreadLegs ==
    ( /\ engine = "explicit" /\ op = "put_backspread"
      /\ strikeArgs[1] < strikeArgs[2] ) =>
        LET lower == IF strikeArgs[1] > spot THEN strikeArgs[1] - spot ELSE 0
            upper == IF strikeArgs[2] > spot THEN strikeArgs[2] - spot ELSE 0
        IN  /\ result[1] = premArgs[2] - upper
            /\ result[2] = 2 * (lower - premArgs[1])
            /\ result[3] = result[1] + result[2]

\* C27: on a non-expired contract the held engine's collar returns 0 for
\* every spot, strike and premium.
C27_CollarIsZero ==
    (engine = "held" /\ op = "collar" /\ Live) => result = <<0>>

C27_Witness ==
    /\ engine = "held" /\ op = "collar" /\ Live
    /\ spot > strike
    /\ premium > 0
    /\ result = <<0>>

\* C28: on a non-expired contract the held engine's covered_call returns
\* what its short_put returns at the same spot, and its covered_put what
\* its short_call returns.
C28_CoveredEqualsOppositeShort ==
    /\ (engine = "held" /\ op = "covered_call" /\ Live) =>
          result = <<held_short_put(spot)>>
    /\ (engine = "held" /\ op = "covered_put" /\ Live) =>
          result = <<held_short_call(spot)>>

C28_Witness ==
    /\ engine = "held" /\ op = "covered_call" /\ Live
    /\ spot < strike
    /\ premium > 0
    /\ result = <<premium - (strike - spot)>>

\* C26: every function of the explicit engine that takes one strike per
\* leg returns a result that depends only on its arguments: the same for
\* every value self.strike can hold when it is called.
C26_ResultIndependentOfHeldStrike ==
    (engine = "explicit" /\ op \in StrikeComposites) =>
        \A held \in Strikes \cup LegPremiums :
            Call(op, held, spot, strikeArgs, premArgs) = result

C26_Witness ==
    /\ engine = "explicit"
    /\ op = "bull_call_spread"
    /\ strike0 = 100
    /\ spot = 105
    /\ strikeArgs = <<90, 110>>
    /\ premArgs = <<8, 3>>
    /\ result = <<7, 3, 10>>

====
